---- MODULE Spec2Model ----
(***************************************************************************)
(* Model of the reddit-media-scraper download pipeline: the forum scanner  *)
(* (process_subreddit), the media resolution orchestrator (download_media),*)
(* the HTML media locator (parse_html_for_media), the extension resolver   *)
(* (get_file_extension), the accept-header selector (get_accept_header)    *)
(* and fetch-and-persist (save_media_file).                                *)
(*                                                                         *)
(* Python strings are modelled as sequences of one-character strings, so   *)
(* that lower(), substring tests, split() and f-string formatting are      *)
(* computed the way the code computes them.                                *)
(***************************************************************************)
EXTENDS Integers, Sequences, FiniteSets, TLC

(***************************************************************************)
(* Bounds of the model.                                                    *)
(***************************************************************************)
\* largest subreddit_limit / number of posts a listing yields
MaxPosts == 3
\* largest post_search_amount (targetCount)
MaxTarget == 3
\* largest safety_limit
MaxSafety == 3
\* cap on the number of download_media calls of one run (never reached by the
\* scanners, which call it at most once per post)
MaxCalls == 4
\* posts of the listing in the scans that are run twice
MaxRerunPosts == 2
\* lines of the source list file read by main
MaxSources == 2
\* posts of a listing in the scans driven by main
MaxMainPosts == 2

(***************************************************************************)
(* Python string helpers.                                                  *)
(***************************************************************************)
\* Python's None, where a string, a list or bytes is expected: every such value
\* of the model is a sequence of strings, and no string of the model is "None"
None == <<"None">>

\* str.lower() on one character (the alphabet of the model's URLs)
LowerChar(c) ==
    CASE c = "A" -> "a" [] c = "E" -> "e" [] c = "G" -> "g" [] c = "J" -> "j"
      [] c = "P" -> "p" [] c = "M" -> "m" [] c = "N" -> "n" [] c = "I" -> "i"
      [] c = "F" -> "f" [] c = "T" -> "t" [] c = "V" -> "v" [] c = "W" -> "w"
      [] c = "B" -> "b" [] OTHER -> c

\* str.lower()
Lower(s) == [i \in 1..Len(s) |-> LowerChar(s[i])]

\* Python's "t in s" for strings
Contains(s, t) ==
    \E i \in 0..(Len(s) - Len(t)) : SubSeq(s, i + 1, i + Len(t)) = t

\* index of the first character of s that is in set cs, or Len(s)+1
FirstOf(s, cs) ==
    IF \E i \in 1..Len(s) : s[i] \in cs
    THEN CHOOSE i \in 1..Len(s) : s[i] \in cs /\ \A j \in 1..(i - 1) : s[j] \notin cs
    ELSE Len(s) + 1

\* index of the last occurrence of character c in s, or 0
LastIndex(s, c) ==
    IF \E i \in 1..Len(s) : s[i] = c
    THEN CHOOSE i \in 1..Len(s) : s[i] = c /\ \A j \in (i + 1)..Len(s) : s[j] # c
    ELSE 0

\* s.split(c)[-1]
LastPart(s, c) == SubSeq(s, LastIndex(s, c) + 1, Len(s))

\* s.split(c)[0]
FirstPart(s, c) == SubSeq(s, 1, FirstOf(s, {c}) - 1)

\* len(s.split(c))
NumParts(s, c) == Cardinality({i \in 1..Len(s) : s[i] = c}) + 1

\* str.strip() (the only whitespace of the model's alphabet is the blank)
RECURSIVE LStrip(_)
LStrip(s) == IF s # <<>> /\ Head(s) = " " THEN LStrip(Tail(s)) ELSE s
RECURSIVE RStrip(_)
RStrip(s) == IF s # <<>> /\ s[Len(s)] = " " THEN RStrip(SubSeq(s, 1, Len(s) - 1)) ELSE s
Strip(s) == RStrip(LStrip(s))


(***************************************************************************)
(* Extension tables (file_operations.py) and configuration (config.py).    *)
(***************************************************************************)
jpg == <<"j", "p", "g">>
jpeg == <<"j", "p", "e", "g">>
png == <<"p", "n", "g">>
gif == <<"g", "i", "f">>
bmp == <<"b", "m", "p">>
webp == <<"w", "e", "b", "p">>
tiff == <<"t", "i", "f", "f">>
tif == <<"t", "i", "f">>
mp4 == <<"m", "p", "4">>
webm == <<"w", "e", "b", "m">>
avi == <<"a", "v", "i">>
mov == <<"m", "o", "v">>
mkv == <<"m", "k", "v">>
flv == <<"f", "l", "v">>
wmv == <<"w", "m", "v">>
m4v == <<"m", "4", "v">>

SUPPORTED_IMAGE_EXTENSIONS == {jpg, jpeg, png, gif, bmp, webp, tiff, tif}
SUPPORTED_VIDEO_EXTENSIONS == {mp4, webm, avi, mov, mkv, flv, wmv, m4v}
SUPPORTED_EXTENSIONS == SUPPORTED_IMAGE_EXTENSIONS \cup SUPPORTED_VIDEO_EXTENSIONS

\* EXTENSION_MAPPING.get(e, e)
EXTENSION_MAPPING(e) == IF e = jpeg THEN jpg ELSE IF e = tiff THEN tif ELSE e

DEFAULT_EXTENSION == jpg

\* config.SUPPORTED_MEDIA_FORMATS
SUPPORTED_MEDIA_FORMATS == <<jpg, jpeg, png, gif, mp4, webm>>

(***************************************************************************)
(* urllib.parse.urlparse and pathlib.Path(...).name, as get_file_extension *)
(* uses them.                                                              *)
(***************************************************************************)
SchemeChars ==
    {"a", "b", "c", "d", "e", "f", "g", "h", "i", "j", "k", "l", "m", "n", "o",
     "p", "q", "r", "s", "t", "u", "v", "w", "x", "y", "z", "A", "E", "F", "G",
     "I", "J", "M", "N", "P", "0", "1", "2", "3", "4", "+", "-", "."}
SchemeDigits == {"0", "1", "2", "3", "4", "+", "-", "."}

\* the url with its scheme ("https:") removed, as urlsplit does
AfterScheme(u) ==
    LET i == FirstOf(u, {":"})
    IN  IF /\ i > 1 /\ i <= Len(u)
           /\ u[1] \notin SchemeDigits
           /\ \A j \in 1..(i - 1) : u[j] \in SchemeChars
        THEN SubSeq(u, i + 1, Len(u))
        ELSE u

\* r is a url without its scheme: does a netloc ("//host") follow
HasNetloc(r) == Len(r) >= 2 /\ SubSeq(r, 1, 2) = <<"/", "/">>

\* the text from position 3 of r up to the first of "/", "?", "#"
NetlocEnd(r) == FirstOf(SubSeq(r, 3, Len(r)), {"/", "?", "#"}) + 2
Netloc(r) == IF HasNetloc(r) THEN SubSeq(r, 3, NetlocEnd(r) - 1) ELSE <<>>
AfterNetloc(r) == IF HasNetloc(r) THEN SubSeq(r, NetlocEnd(r), Len(r)) ELSE r

\* urlsplit raises ValueError("Invalid IPv6 URL") on unbalanced brackets
UnbalancedBrackets(n) ==
    \/ (Contains(n, <<"[">>) /\ ~Contains(n, <<"]">>))
    \/ (Contains(n, <<"]">>) /\ ~Contains(n, <<"[">>))
UrlparseRaises(u) == UnbalancedBrackets(Netloc(AfterScheme(u)))

\* _splitparams: the path without the ";params" of its last segment
CutParams(p) ==
    LET sl == LastIndex(p, "/")
    IN  SubSeq(p, 1, sl + FirstOf(SubSeq(p, sl + 1, Len(p)), {";"}) - 1)

\* urlparse(u).path: scheme and netloc removed, fragment, query and params cut
UrlPath(u) == CutParams(FirstPart(FirstPart(AfterNetloc(AfterScheme(u)), "#"), "?"))

\* the components of a path, empty and "." components dropped (PurePosixPath)
RECURSIVE PathParts(_)
PathParts(p) ==
    IF p = <<>> THEN <<>>
    ELSE IF FirstPart(p, "/") = <<>> \/ FirstPart(p, "/") = <<".">>
         THEN PathParts(SubSeq(p, FirstOf(p, {"/"}) + 1, Len(p)))
         ELSE <<FirstPart(p, "/")>> \o PathParts(SubSeq(p, FirstOf(p, {"/"}) + 1, Len(p)))

\* the last element of a sequence, <<>> if there is none
LastOrEmpty(ps) == IF ps = <<>> THEN <<>> ELSE ps[Len(ps)]

\* Path(p).name
PathName(p) == LastOrEmpty(PathParts(p))

(***************************************************************************)
(* Extension Resolver (file_operations.py).                                *)
(***************************************************************************)
\* lines 186-189 and 216-219: the extension if supported, else the default
SupportedOrDefault(normalized_extension) ==
    IF normalized_extension \in SUPPORTED_EXTENSIONS
    THEN normalized_extension
    ELSE DEFAULT_EXTENSION

\* lines 207-209: after the last slash, before the first question mark
FallbackFilenamePart(url) == FirstPart(LastPart(url, "/"), "?")

\* lines 211-219
FallbackExtension(filename_part) ==
    IF NumParts(filename_part, ".") > 1
    THEN SupportedOrDefault(EXTENSION_MAPPING(Strip(Lower(LastPart(filename_part, ".")))))
    ELSE DEFAULT_EXTENSION

_fallback_extension_extraction(url) == FallbackExtension(FallbackFilenamePart(url))

\* lines 179-189
ExtensionOfRaw(raw_extension) ==
    IF raw_extension = <<>> THEN DEFAULT_EXTENSION
    ELSE SupportedOrDefault(EXTENSION_MAPPING(raw_extension))

\* lines 169-177
ExtensionOfFilename(filename) ==
    IF filename = <<>> \/ filename = <<".">> \/ filename = <<".", ".">>
    THEN DEFAULT_EXTENSION
    ELSE IF NumParts(filename, ".") < 2 THEN DEFAULT_EXTENSION
    ELSE ExtensionOfRaw(Strip(Lower(LastPart(filename, "."))))

\* lines 163-167
ExtensionOfPath(path_part) ==
    IF path_part = <<>> THEN DEFAULT_EXTENSION
    ELSE ExtensionOfFilename(PathName(path_part))

get_file_extension(url) ==
    IF Strip(url) = <<>> THEN DEFAULT_EXTENSION
    ELSE IF UrlparseRaises(Strip(url)) THEN _fallback_extension_extraction(url)
    ELSE ExtensionOfPath(UrlPath(Strip(url)))

(***************************************************************************)
(* Accept-Header Selector (media_parsing.py).                              *)
(***************************************************************************)
\* faulty variant of get_accept_header: the declared extension decides before
\* the URL is looked at
AcceptExtensionFirst(file_extension, media_url) ==
    LET media_url_lower == Lower(media_url)
    IN  IF file_extension = mp4 \/ file_extension = webm
        THEN "video/*, */*"
        ELSE IF file_extension = gif
        THEN "image/gif, image/*"
        ELSE IF \/ Contains(media_url_lower, <<".">> \o mp4)
                \/ Contains(media_url_lower, <<".">> \o webm)
        THEN "video/*, */*"
        ELSE IF Contains(media_url_lower, <<".">> \o gif)
        THEN "image/gif, image/*"
        ELSE "image/*"

get_accept_header(file_extension, media_url) ==
    LET media_url_lower == Lower(media_url)
    IN  IF \/ file_extension = mp4
           \/ Contains(media_url_lower, <<".">> \o mp4)
           \/ file_extension = webm
           \/ Contains(media_url_lower, <<".">> \o webm)
        THEN "video/*, */*"
        ELSE IF file_extension = gif \/ Contains(media_url_lower, <<".">> \o gif)
        THEN "image/gif, image/*"
        ELSE "image/*"


(***************************************************************************)
(* The world outside the program: URLs, pages, response bodies.            *)
(***************************************************************************)
Host == <<"h", "t", "t", "p", "s", ":", "/", "/", "x", "/">>

\* post URLs
UrlJpg     == Host \o <<"a", ".", "j", "p", "g">>
UrlJpegUp  == Host \o <<"A", ".", "J", "P", "E", "G">>
UrlPage    == Host \o <<"p">>
UrlGifDir  == Host \o <<"g", ".", "g", "i", "f", "/", "v">>
UrlBmp     == Host \o <<"b", ".", "b", "m", "p">>
UrlMp4Q    == Host \o <<"v", ".", "m", "p", "4", "?", "x", "=", "1">>
PostUrls   == {UrlJpg, UrlJpegUp, UrlPage, UrlGifDir, UrlBmp, UrlMp4Q}

\* URLs found in the content attribute of og:video / og:image tags
UrlVidWebm == Host \o <<"w", ".", "w", "e", "b", "m">>
UrlImgPng  == Host \o <<"i", ".", "p", "n", "g">>
UrlImgBmp  == Host \o <<"i", ".", "b", "m", "p">>
VideoContents == {None, <<>>, UrlVidWebm}
ImageContents == {None, <<>>, UrlImgPng, UrlImgBmp}

\* what requests.get + raise_for_status of the page can give: an exception
\* (network failure), a non-2xx status, or a page with its two og tags; a tag
\* is None when absent or without content attribute
Failed(status) == [status |-> status, video |-> None, image |-> None, content |-> None]
Pages == [status : {"ok"}, video : VideoContents, image : ImageContents, content : {None}]
PageOutcomes == {Failed("exception"), Failed("http_error")} \cup Pages

\* response.content of the media fetch
Bodies == {<<"x07">>, <<"x07", "x08">>}
Contents == {None, <<>>} \cup Bodies
\* what the media fetch can give
MediaOutcomes ==
    {Failed("exception"), Failed("http_error")}
        \cup [status : {"ok"}, video : {None}, image : {None}, content : Contents]

\* what open()/write() can do: succeed, fail at open (nothing written), or
\* fail in write() after open(..., "wb") truncated the file
WriteOutcomes == {"ok", "open_error", "write_error"}

Envs == [page : PageOutcomes, media : MediaOutcomes, write : WriteOutcomes]

\* every URL the program can come to fetch
AllUrls == PostUrls \cup ((VideoContents \cup ImageContents) \ {None, <<>>})

\* get_file_extension and get_accept_header, computed once for every URL of
\* the model
FileExtensionOf == [u \in AllUrls |-> get_file_extension(u)]
AcceptHeaderOf ==
    [e \in {get_file_extension(u) : u \in AllUrls} \cup {mp4}, u \in AllUrls |->
        get_accept_header(e, u)]

(***************************************************************************)
(* HTML Media Locator (media_parsing.py).  Returns <<media_url, hint>>.    *)
(***************************************************************************)
\* Python truthiness of a tag's content attribute
Truthy(content) == content # None /\ content # <<>>

\* faulty variant of parse_html_for_media: the image tag is looked at first
ParseImageFirst(page) ==
    IF page.status # "ok" THEN <<None, None>>
    ELSE IF Truthy(page.image) THEN <<page.image, None>>
    ELSE IF Truthy(page.video) THEN <<page.video, mp4>>
    ELSE <<None, None>>

\* faulty variant of parse_html_for_media: an image comes with a hint
ParseImageHinted(page) ==
    IF page.status # "ok" THEN <<None, None>>
    ELSE IF Truthy(page.video) THEN <<page.video, mp4>>
    ELSE IF Truthy(page.image) THEN <<page.image, jpg>>
    ELSE <<None, None>>

\* lines 27-53; str(content) of a string is that string
parse_html_for_media(page) ==
    IF page.status # "ok" THEN <<None, None>>
    ELSE IF Truthy(page.video) THEN <<page.video, mp4>>
    ELSE IF Truthy(page.image) THEN <<page.image, None>>
    ELSE <<None, None>>

(***************************************************************************)
(* Fetch-and-Persist (media_download.py save_media_file).                  *)
(* Returns the verdict and the file system after the call.                 *)
(***************************************************************************)
\* faulty variant of Filename: the identifier of the post left out
FilenameNoId(media_path, sub, submission_id, file_extension) ==
    media_path \o sub \o <<".">> \o file_extension

\* faulty variant of Filename: the source name left out
FilenameNoSub(media_path, sub, submission_id, file_extension) ==
    media_path \o submission_id \o <<".">> \o file_extension

\* f"{media_path}{sub}-{submission_id}.{file_extension}"
Filename(media_path, sub, submission_id, file_extension) ==
    media_path \o sub \o <<"-">> \o submission_id \o <<".">> \o file_extension

\* the file system with file name set to content
WriteFile(fs, name, content) ==
    [f \in DOMAIN fs \cup {name} |-> IF f = name THEN content ELSE fs[f]]

\* faulty variant of save_media_file: no check for empty content
SaveUnchecked(content, media_path, sub, submission_id, file_extension, write, fs) ==
    IF write = "ok"
    THEN [ok |-> TRUE,
          fs |-> WriteFile(fs, Filename(media_path, sub, submission_id, file_extension),
                           IF content = None THEN <<>> ELSE content)]
    ELSE [ok |-> FALSE, fs |-> fs]

\* faulty variant of save_media_file: a file that exists is kept
SaveSkipExisting(content, media_path, sub, submission_id, file_extension, write, fs) ==
    IF content = None \/ Len(content) = 0
    THEN [ok |-> FALSE, fs |-> fs]
    ELSE LET filename == Filename(media_path, sub, submission_id, file_extension)
         IN  IF filename \in DOMAIN fs THEN [ok |-> TRUE, fs |-> fs]
             ELSE IF write = "ok"
             THEN [ok |-> TRUE, fs |-> WriteFile(fs, filename, content)]
             ELSE [ok |-> FALSE, fs |-> fs]

\* lines 37-46; open(filename, "wb") creates the file or truncates the one
\* that exists
save_media_file(content, media_path, sub, submission_id, file_extension, write, fs) ==
    IF content = None \/ Len(content) = 0
    THEN [ok |-> FALSE, fs |-> fs]
    ELSE LET filename == Filename(media_path, sub, submission_id, file_extension)
         IN  CASE write = "ok" ->
                    [ok |-> TRUE, fs |-> WriteFile(fs, filename, content)]
               [] write = "open_error" ->
                    [ok |-> FALSE, fs |-> fs]
               [] write = "write_error" ->
                    [ok |-> FALSE, fs |-> WriteFile(fs, filename, <<>>)]

(***************************************************************************)
(* Media Resolution Orchestrator (media_download.py download_media).       *)
(* Returns the result pair, what the call did (page fetched, URL of the    *)
(* media fetch, Accept header sent) and the file system after the call.    *)
(* c is the call: its arguments, the answers of the web (env) and the file *)
(* system before it (fs).                                                  *)
(***************************************************************************)
\* Python truthiness of supported_media_formats (None or a list)
NonEmptyList(l) == l # None /\ l # <<>>

\* e in list
InList(e, l) == \E i \in 1..Len(l) : l[i] = e

\* what a call reports and did: the locator's result, the extension resolved,
\* the URL of the media fetch and its Accept header (None: no fetch issued),
\* the pair returned, and the file system after the call
Report(c, result, file_extension, fetched, accept, success, ext, fs) ==
    [page_fetched |-> ~c.is_direct_media, result |-> result,
     file_extension |-> file_extension, fetched |-> fetched, accept |-> accept,
     success |-> success, ext |-> ext, fs |-> fs, raised |-> FALSE]

\* return False, None
Failure(c, result, file_extension, fetched, accept) ==
    Report(c, result, file_extension, fetched, accept, FALSE, None, c.fs)

\* an exception that leaves download_media: nothing is returned, the caller
\* sees the exception (process_user_submissions catches it, lines 55-57)
Raised(c, result, file_extension, fetched, accept) ==
    [Failure(c, result, file_extension, fetched, accept) EXCEPT !.raised = TRUE]

\* faulty variant of Saved: return success, file_extension
SavedWithExtension(c, result, media_url, file_extension, accept, saved) ==
    Report(c, result, file_extension, media_url, accept, saved.ok, file_extension,
           saved.fs)

\* lines 114-115: return success, file_extension if success else None
Saved(c, result, media_url, file_extension, accept, saved) ==
    Report(c, result, file_extension, media_url, accept, saved.ok,
           IF saved.ok THEN file_extension ELSE None, saved.fs)

\* faulty variant of Fetch: no except clause around the fetch
FetchUncaught(c, result, media_url, file_extension, accept) ==
    IF c.env.media.status # "ok"
    THEN Raised(c, result, file_extension, media_url, accept)
    ELSE Saved(c, result, media_url, file_extension, accept,
               save_media_file(c.env.media.content, c.media_path, c.sub,
                               c.submission.id, file_extension, c.env.write, c.fs))

\* lines 107-118: the media fetch and the save; the except clause of line 117
\* turns every exception of requests.get and raise_for_status into
\* return False, None
Fetch(c, result, media_url, file_extension, accept) ==
    IF c.env.media.status # "ok"
    THEN Failure(c, result, file_extension, media_url, accept)
    ELSE Saved(c, result, media_url, file_extension, accept,
               save_media_file(c.env.media.content, c.media_path, c.sub,
                               c.submission.id, file_extension, c.env.write, c.fs))

\* faulty variant of CheckSupported: no allow-list check
CheckSupportedSkipped(c, result, media_url, file_extension) ==
    Fetch(c, result, media_url, file_extension,
          AcceptHeaderOf[file_extension, media_url])

\* lines 100-104: the allow-list check, then the Accept header
CheckSupported(c, result, media_url, file_extension) ==
    IF /\ NonEmptyList(c.supported_media_formats)
       /\ ~InList(file_extension, c.supported_media_formats)
    THEN Failure(c, result, file_extension, None, None)
    ELSE Fetch(c, result, media_url, file_extension,
               AcceptHeaderOf[file_extension, media_url])

\* faulty variant of ResolveExtension: the extension is taken from the post URL
ResolveFromPostUrl(c, result, media_url, file_extension) ==
    CheckSupported(c, result, media_url,
                   IF file_extension = None \/ file_extension = <<>>
                   THEN FileExtensionOf[c.submission.url]
                   ELSE file_extension)

\* lines 96-98: if not file_extension: get_file_extension(media_url_to_download)
ResolveExtension(c, result, media_url, file_extension) ==
    CheckSupported(c, result, media_url,
                   IF file_extension = None \/ file_extension = <<>>
                   THEN FileExtensionOf[media_url]
                   ELSE file_extension)

\* faulty variant of AfterLocate: the hint of the locator is dropped
AfterLocateNoHint(c, result) ==
    IF result = <<None, None>>
    THEN Failure(c, result, None, None, None)
    ELSE IF result[1] # None
    THEN ResolveExtension(c, result, result[1], None)
    ELSE ResolveExtension(c, result, c.submission.url, None)

\* faulty variant of AfterLocate: no early return on (None, None)
AfterLocateNoReturn(c, result) ==
    IF result[1] # None
    THEN ResolveExtension(c, result, result[1], result[2])
    ELSE ResolveExtension(c, result, c.submission.url, None)

\* lines 88-93: what is adopted from the locator's result
AfterLocate(c, result) ==
    IF result = <<None, None>>
    THEN Failure(c, result, None, None, None)
    ELSE IF result[1] # None
    THEN ResolveExtension(c, result, result[1], result[2])
    ELSE ResolveExtension(c, result, c.submission.url, None)

\* lines 79-93
DownloadCall(c) ==
    IF c.is_direct_media
    THEN ResolveExtension(c, <<None, None>>, c.submission.url, None)
    ELSE AfterLocate(c, parse_html_for_media(c.env.page))

download_media(submission, media_path, sub, is_direct_media, supported_media_formats, env, fs) ==
    DownloadCall([submission |-> submission, media_path |-> media_path, sub |-> sub,
                  is_direct_media |-> is_direct_media,
                  supported_media_formats |-> supported_media_formats,
                  env |-> env, fs |-> fs])

(***************************************************************************)
(* State.                                                                  *)
(***************************************************************************)
VARIABLES
    kind,           \* what runs: "forum" (process_subreddit), "user"
                    \* (process_user_submissions), "call" (download_media alone),
                    \* "pure" (one of the two pure functions alone), "auth"
                    \* (create_token or authenticate_reddit alone) or "main"
                    \* (main.py's main, with main.py's own process_subreddit)
    driver,         \* what drives the scan, when something does
    cfg,            \* arguments of the scan: sub (forum or user name),
                    \* post_search_amount, subreddit_limit (limit of the listing),
                    \* safety_limit, supported_media_formats
    srcLen,         \* number of posts the listing new(limit=...) yields before
                    \* it ends or its request fails
    pc,             \* position in the scanner
    it,             \* number of posts taken from the listing iterator
    cur,            \* the submission of the current iteration
    posts_checked,  \* process_subreddit's posts_checked
    count,          \* process_subreddit's count
    results,        \* process_user_submissions' results
    files,          \* the file system: file name -> bytes
    calls,          \* history: ids of the posts passed to download_media
    out,            \* history: what was printed
    last            \* history: the last download_media call and what it did

vars == <<kind, driver, cfg, srcLen, pc, it, cur, posts_checked, count, results, files, calls,
          out, last>>

MediaPath == <<"/", "d", "/">>
Pics == <<"p", "i", "c", "s">>
Alice == <<"a", "l", "i", "c", "e">>

\* submission.id of the i-th post of a listing (unique within the listing)
PostId(i) == <<"i", "d">> \o <<<<"0", "1", "2", "3", "4", "5", "6", "7", "8", "9">>[i + 1]>>

NoSubmission == [id |-> None, url |-> None]
NoCall == [called |-> FALSE]
\* a scan or a function called on its own
NoDriver == [run |-> 0]

(***************************************************************************)
(* Source Scanner (subreddit_processor.py process_subreddit).              *)
(***************************************************************************)
\* faulty variants of GoalMet: the comparison off by one, either way
GoalMetLate(c, post_search_amount) == c > post_search_amount
GoalMetEarly(c, post_search_amount) == c + 1 >= post_search_amount

\* line 42: if count >= post_search_amount: break
GoalMet(c, post_search_amount) == c >= post_search_amount

\* faulty variant of SafetyLimitReached: >= for >
SafetyLimitEarly(checked, safety_limit) == checked >= safety_limit

\* line 46: if posts_checked > safety_limit: ... break
SafetyLimitReached(checked, safety_limit) == checked > safety_limit

\* line 51: any(f".{fmt}" in url_lower for fmt in supported_media_formats)
IsDirectMedia(url, supported_media_formats) ==
    LET url_lower == Lower(url)
    IN  \E i \in 1..Len(supported_media_formats) :
            Contains(url_lower, <<".">> \o supported_media_formats[i])

\* line 57: if success and actual_extension
Counted(success, actual_extension) ==
    success /\ actual_extension # None /\ actual_extension # <<>>

\* faulty variants of AfterDownload: a failed post is tried again; a failed post ends
\* the scan
AfterDownloadRetry(success) == IF success THEN "loop" ELSE "download"
AfterDownloadAbort(success) == IF success THEN "loop" ELSE "summary"

\* where the loop goes after the download of one post: back to the for
\* statement, whatever the outcome
AfterDownload(success) == "loop"

\* the allow-lists the scans are run with
ScanFormats == {SUPPORTED_MEDIA_FORMATS, <<>>}

\* the state in which a scan starts
ScanStart ==
    /\ driver = NoDriver
    /\ srcLen \in 0..MaxPosts
    /\ srcLen <= cfg.subreddit_limit
    /\ pc = "loop"
    /\ it = 0
    /\ cur = NoSubmission
    /\ posts_checked = 0
    /\ count = 0
    /\ results = <<>>
    /\ files = <<>>
    /\ calls = <<>>
    /\ out = <<>>
    /\ last = NoCall

ForumInit ==
    /\ kind = "forum"
    /\ cfg \in [sub : {Pics},
                post_search_amount : 0..MaxTarget,
                subreddit_limit : 1..MaxPosts,
                safety_limit : 0..MaxSafety,
                supported_media_formats : ScanFormats]
    /\ ScanStart

\* process_user_submissions has neither post_search_amount nor safety_limit
\* among its parameters: the values here are those configured for the run
\* (config.py POST_SEARCH_AMOUNT and SAFETY_LIMIT), which no step of the
\* user scan reads
UserInit ==
    /\ kind = "user"
    /\ cfg \in [sub : {Alice},
                post_search_amount : 1..MaxTarget,
                subreddit_limit : 1..MaxPosts,
                safety_limit : 1..MaxSafety,
                supported_media_formats : ScanFormats]
    /\ ScanStart

ScanInit == ForumInit \/ UserInit

\* the loop of process_subreddit, which main.py's process_subreddit has too
\* (main.py lines 256-266 are subreddit_processor.py lines 38-48, with the
\* constants of config.py for the parameters)
ForumLoop == kind \in {"forum", "main"}

\* the for statement takes the next submission from the listing
TakeNext(urls) ==
    /\ ForumLoop
    /\ pc = "loop"
    /\ it < srcLen
    /\ it' = it + 1
    /\ \E url \in urls : cur' = [id |-> PostId(it + 1), url |-> url]
    /\ posts_checked' = posts_checked + 1
    /\ UNCHANGED <<kind, driver, cfg, srcLen, count, results, files, calls, last>>

\* lines 38-43: next submission, enough media found: break
LoopGoalMet(urls) ==
    /\ TakeNext(urls)
    /\ GoalMet(count, cfg.post_search_amount)
    /\ pc' = "summary"
    /\ out' = out

\* lines 38-48: next submission, safety limit exceeded: report and break
LoopSafetyLimit(urls) ==
    /\ TakeNext(urls)
    /\ ~GoalMet(count, cfg.post_search_amount)
    /\ SafetyLimitReached(posts_checked', cfg.safety_limit)
    /\ pc' = "summary"
    /\ out' = Append(out, [kind |-> "safety", limit |-> cfg.safety_limit])

\* lines 38-51: next submission, passed on to the download
LoopProceed(urls) ==
    /\ TakeNext(urls)
    /\ ~GoalMet(count, cfg.post_search_amount)
    /\ ~SafetyLimitReached(posts_checked', cfg.safety_limit)
    /\ pc' = "download"
    /\ out' = out

\* line 38: the listing is exhausted
LoopExhausted ==
    /\ ForumLoop
    /\ pc = "loop"
    /\ it >= srcLen
    /\ pc' = "summary"
    /\ UNCHANGED <<kind, driver, cfg, srcLen, it, cur, posts_checked, count, results, files,
                   calls, out, last>>

\* line 38: the request of the listing fails (the forum does not exist, the
\* network is down); the for statement is not in a try statement, the
\* exception leaves process_subreddit
ListingFails ==
    /\ ForumLoop
    /\ pc = "loop"
    /\ it >= srcLen
    /\ pc' = "raised"
    /\ UNCHANGED <<kind, driver, cfg, srcLen, it, cur, posts_checked, count, results,
                   files, calls, out, last>>

\* what is kept of a download_media call: its arguments, the answers it got
\* from the web and the file system (those it asked for), and what it reported
NotAsked == Failed("not_asked")
CallRecord(submission, sub, is_direct_media, supported_media_formats, env, r) ==
    [called |-> TRUE, submission |-> submission, sub |-> sub,
     is_direct_media |-> is_direct_media,
     supported_media_formats |-> supported_media_formats,
     page |-> IF r.page_fetched THEN env.page ELSE NotAsked,
     media |-> IF r.fetched # None THEN env.media ELSE NotAsked,
     write |-> IF r.fetched # None /\ env.media.status = "ok"
                  /\ env.media.content # None /\ env.media.content # <<>>
               THEN env.write ELSE "not_asked",
     page_fetched |-> r.page_fetched, result |-> r.result,
     file_extension |-> r.file_extension, fetched |-> r.fetched,
     accept |-> r.accept, success |-> r.success, ext |-> r.ext,
     raised |-> r.raised]

\* lines 58-61: the progress record
Progress(c, sub, submission, actual_extension) ==
    [kind |-> "progress", index |-> c + 1, of |-> cfg.post_search_amount,
     url |-> submission.url,
     filename |-> sub \o <<"-">> \o submission.id \o <<".">> \o actual_extension]

\* lines 57-62, r being what download_media returned and did; the call is
\* not in a try statement, an exception would leave process_subreddit
AfterCall(r, is_direct_media, env) ==
    /\ calls' = Append(calls, cur.id)
    /\ files' = r.fs
    /\ last' = CallRecord(cur, cfg.sub, is_direct_media, cfg.supported_media_formats, env, r)
    /\ count' = IF Counted(r.success, r.ext) THEN count + 1 ELSE count
    /\ out' = IF Counted(r.success, r.ext)
              THEN Append(out, Progress(count, cfg.sub, cur, r.ext))
              ELSE out
    /\ pc' = IF r.raised THEN "raised" ELSE AfterDownload(Counted(r.success, r.ext))

\* lines 54-56
CallDownload(is_direct_media, env) ==
    \E r \in {download_media(cur, MediaPath, cfg.sub, is_direct_media,
                             cfg.supported_media_formats, env, files)} :
        AfterCall(r, is_direct_media, env)

\* lines 50-62: download_media on the current submission, progress record
LoopDownload(envs) ==
    /\ kind = "forum"
    /\ pc = "download"
    /\ Len(calls) < MaxCalls
    /\ \E env \in envs :
           \E is_direct_media \in {IsDirectMedia(cur.url, cfg.supported_media_formats)} :
               CallDownload(is_direct_media, env)
    /\ UNCHANGED <<kind, driver, cfg, srcLen, it, cur, posts_checked, results>>

\* line 64: the final summary
Summary ==
    /\ kind = "forum"
    /\ pc = "summary"
    /\ out' = Append(out, [kind |-> "summary", saved |-> count, scanned |-> posts_checked])
    /\ pc' = "done"
    /\ UNCHANGED <<kind, driver, cfg, srcLen, it, cur, posts_checked, count, results, files,
                   calls, last>>

(***************************************************************************)
(* User scanner (usersubmissions_processor.py process_user_submissions).   *)
(***************************************************************************)
\* line 40: any(...) if supported_media_formats else True
UserIsDirectMedia(url, supported_media_formats) ==
    IF NonEmptyList(supported_media_formats)
    THEN IsDirectMedia(url, supported_media_formats)
    ELSE TRUE

\* where the loop goes after the download of one submission: on to the next
AfterUserDownload(success) == "loop"

\* lines 37-38: the for statement takes the next submission of the listing
UserLoopNext(urls) ==
    /\ kind = "user"
    /\ pc = "loop"
    /\ it < srcLen
    /\ it' = it + 1
    /\ \E url \in urls : cur' = [id |-> PostId(it + 1), url |-> url]
    /\ pc' = "download"
    /\ out' = Append(out, [kind |-> "processing", index |-> it + 1, id |-> PostId(it + 1)])
    /\ UNCHANGED <<kind, driver, cfg, srcLen, posts_checked, count, results, files, calls, last>>

\* line 37: the listing is exhausted
UserLoopExhausted ==
    /\ kind = "user"
    /\ pc = "loop"
    /\ it >= srcLen
    /\ pc' = "summary"
    /\ UNCHANGED <<kind, driver, cfg, srcLen, it, cur, posts_checked, count, results, files,
                   calls, out, last>>

\* lines 34-37, 58-60: the redditor or the request of its listing fails; the
\* exception is caught and printed
UserListingFails ==
    /\ kind = "user"
    /\ pc = "loop"
    /\ it >= srcLen
    /\ out' = Append(out, [kind |-> "error_user", user |-> cfg.sub])
    /\ pc' = "summary"
    /\ UNCHANGED <<kind, driver, cfg, srcLen, it, cur, posts_checked, count, results,
                   files, calls, last>>

\* lines 50-57, r being what download_media returned and did; an exception
\* is caught, printed, and the loop goes on
AfterUserCall(r, is_direct_media, env) ==
    /\ calls' = Append(calls, cur.id)
    /\ files' = r.fs
    /\ last' = CallRecord(cur, cfg.sub, is_direct_media, cfg.supported_media_formats, env, r)
    /\ results' = IF r.success THEN Append(results, <<cur.id, r.ext>>) ELSE results
    /\ out' = Append(out, [kind |-> IF r.raised THEN "error"
                                    ELSE IF r.success THEN "downloaded" ELSE "no_media",
                           id |-> cur.id, ext |-> r.ext])
    /\ pc' = AfterUserDownload(r.success)

\* lines 39-57: download_media on the current submission
UserLoopDownload(envs) ==
    /\ kind = "user"
    /\ pc = "download"
    /\ Len(calls) < MaxCalls
    /\ \E env \in envs :
           \E is_direct_media \in {UserIsDirectMedia(cur.url, cfg.supported_media_formats)} :
               \E r \in {download_media(cur, MediaPath, cfg.sub, is_direct_media,
                                        cfg.supported_media_formats, env, files)} :
                   AfterUserCall(r, is_direct_media, env)
    /\ UNCHANGED <<kind, driver, cfg, srcLen, it, cur, posts_checked, count>>

\* lines 61-62: the final line, and the return
UserFinish ==
    /\ kind = "user"
    /\ pc = "summary"
    /\ out' = Append(out, [kind |-> "finished", user |-> cfg.sub])
    /\ pc' = "done"
    /\ UNCHANGED <<kind, driver, cfg, srcLen, it, cur, posts_checked, count, results, files,
                   calls, last>>

(***************************************************************************)
(* The scan of one source, a forum or a user.  The posts of the listing and *)
(* the answers of the web are chosen as the scan goes.                     *)
(***************************************************************************)
ScanUrls == {UrlJpg, UrlPage}
ScanEnvs ==
    [page : {Failed("exception"),
             [status |-> "ok", video |-> None, image |-> UrlImgPng, content |-> None]},
     media : {Failed("http_error"),
              [status |-> "ok", video |-> None, image |-> None, content |-> <<"x07">>]},
     write : {"ok"}]

Init == ScanInit

Next ==
    \/ LoopGoalMet(ScanUrls)
    \/ LoopSafetyLimit(ScanUrls)
    \/ LoopProceed(ScanUrls)
    \/ LoopExhausted
    \/ ListingFails
    \/ LoopDownload(ScanEnvs)
    \/ Summary
    \/ UserLoopNext(ScanUrls)
    \/ UserLoopExhausted
    \/ UserListingFails
    \/ UserLoopDownload(ScanEnvs)
    \/ UserFinish

Spec == Init /\ [][Next]_vars

\* the scan is scheduled until it returns: every step of the sequential loop
\* is eventually taken
FairSpec == Spec /\ WF_vars(Next)


(***************************************************************************)
(* Properties of the forum scan.                                           *)
(***************************************************************************)
\* the ids of the first n posts of the listing, in order
FirstPosts(n) == [i \in 1..n |-> PostId(i)]

\* C1: with post_search_amount >= 0, count never exceeds post_search_amount,
\* and download_media is never about to be called with count >= post_search_amount
C1_NeverBeyondTarget ==
    (kind = "forum" /\ cfg.post_search_amount >= 0) =>
        /\ count <= cfg.post_search_amount
        /\ (pc = "download" => count < cfg.post_search_amount)

\* C1 witness: the target (>= 1) is reached and a further post of the listing
\* was taken but not passed to download_media
C1_Witness ==
    /\ kind = "forum"
    /\ cfg.post_search_amount >= 1
    /\ count = cfg.post_search_amount
    /\ pc = "summary"
    /\ it = Len(calls) + 1

\* C2: a listing of exactly n >= 1 posts, all downloaded successfully, with
\* post_search_amount = n and safety_limit >= n: download_media is called n
\* times, once per post in order, and the scan ends with count = n and
\* posts_checked = n
C2_AllSucceed ==
    (/\ kind = "forum"
     /\ pc = "done"
     /\ srcLen >= 1
     /\ cfg.post_search_amount = srcLen
     /\ cfg.safety_limit >= srcLen
     /\ count = Len(calls))
        => /\ calls = FirstPosts(srcLen)
           /\ count = srcLen
           /\ posts_checked = srcLen

\* C2 witness: such a scan of MaxPosts posts has ended
C2_Witness ==
    /\ kind = "forum"
    /\ pc = "done"
    /\ srcLen = MaxPosts
    /\ cfg.post_search_amount = srcLen
    /\ cfg.safety_limit >= srcLen
    /\ count = srcLen

\* C3: more posts than safety_limit, no success, post_search_amount >= 1:
\* download_media is called on exactly the first safety_limit posts, and the
\* safety report is printed, followed by the summary
C3_StopsAtSafetyLimit ==
    (/\ kind = "forum"
     /\ pc = "done"
     /\ srcLen > cfg.safety_limit
     /\ count = 0
     /\ cfg.post_search_amount >= 1)
        => /\ calls = FirstPosts(cfg.safety_limit)
           /\ Len(out) = 2
           /\ out[1] = [kind |-> "safety", limit |-> cfg.safety_limit]
           /\ out[2].kind = "summary"

\* C3 witness: such a scan with a safety limit of at least 2 has ended
C3_Witness ==
    /\ kind = "forum"
    /\ pc = "done"
    /\ cfg.safety_limit >= 2
    /\ srcLen > cfg.safety_limit
    /\ count = 0
    /\ cfg.post_search_amount >= 1
    /\ Len(calls) = cfg.safety_limit

\* C4 as claimed: posts_checked never decreases, never exceeds safety_limit and
\* never exceeds the number of posts the listing yields (stated for the scans
\* with a target and a safety limit of at least 1)
C4_PostsCheckedBounded ==
    [][(kind = "forum" /\ cfg.post_search_amount >= 1 /\ cfg.safety_limit >= 1) =>
          /\ posts_checked' >= posts_checked
          /\ posts_checked' <= cfg.safety_limit
          /\ posts_checked' <= srcLen]_vars

\* C5: every forum scan terminates: it returns after its summary, or the
\* exception of a failed listing leaves it
C5_Terminates == (kind = "forum") => <>(pc \in {"done", "raised"})

\* C5 witness: a scan that called download_media on MaxPosts posts, some of
\* them failing, has ended
C5_Witness ==
    kind = "forum" /\ pc = "done" /\ Len(calls) = MaxPosts /\ count < Len(calls)

\* no element occurs twice
NoDuplicates(seq) == \A i, j \in 1..Len(seq) : seq[i] = seq[j] => i = j

\* C6, in the forum scan and in the user scan: a failed download_media leaves
\* the number of successes unchanged and the scan goes on with the for
\* statement, which takes the next post of the listing and (unless the forum
\* scan's safety limit ends it) passes it to download_media; no post is passed
\* to download_media twice
C6_FailureContinues ==
    [][/\ (Len(calls') > Len(calls) /\ ~last'.success)
            => (count' = count /\ results' = results /\ pc' = "loop" /\ it' = it)
       /\ (pc = "loop" /\ it < srcLen)
            => (it' = it + 1 /\ cur'.id = PostId(it + 1))
       /\ (/\ pc = "loop" /\ it < srcLen /\ last.called /\ ~last.success
           /\ (kind = "forum" => posts_checked < cfg.safety_limit))
            => pc' = "download"
       /\ NoDuplicates(calls')]_vars

\* C6 witness (forum): the first post failed, the second post was then
\* downloaded
C6_Witness ==
    /\ kind = "forum"
    /\ Len(calls) = 2
    /\ count = 1
    /\ last.called /\ last.success /\ last.submission.id = PostId(2)


(***************************************************************************)
(* download_media called on its own, as the tests call it: one call, with  *)
(* any post, any is_direct_media flag, any allow-list, any answer of the   *)
(* web, on a file system that may already hold files.                      *)
(***************************************************************************)
FormatChoices == {None, <<>>, SUPPORTED_MEDIA_FORMATS, <<jpg, png>>}

\* file systems before the call: empty, a file of another post, the file of
\* this post with other bytes
InitialFiles ==
    {<<>>,
     WriteFile(<<>>, Filename(MediaPath, Pics, PostId(2), png), <<"x09">>),
     WriteFile(<<>>, Filename(MediaPath, Pics, PostId(1), jpg), <<"x09">>)}

OrchInit ==
    /\ kind = "call"
    /\ driver = NoDriver
    /\ cfg = [sub |-> Pics, post_search_amount |-> 0, subreddit_limit |-> 1,
              safety_limit |-> 0, supported_media_formats |-> None]
    /\ srcLen = 0
    /\ pc = "call"
    /\ it = 0
    /\ cur = NoSubmission
    /\ posts_checked = 0
    /\ count = 0
    /\ results = <<>>
    /\ files \in InitialFiles
    /\ calls = <<>>
    /\ out = <<>>
    /\ last = NoCall

\* one call of download_media
DirectCall ==
    /\ kind = "call"
    /\ pc = "call"
    /\ \E url \in PostUrls, is_direct_media \in BOOLEAN,
          supported_media_formats \in FormatChoices, env \in Envs :
         \E r \in {download_media([id |-> PostId(1), url |-> url], MediaPath, Pics,
                                  is_direct_media, supported_media_formats, env, files)} :
            /\ files' = r.fs
            /\ last' = CallRecord([id |-> PostId(1), url |-> url], Pics, is_direct_media,
                                  supported_media_formats, env, r)
            /\ calls' = Append(calls, PostId(1))
    /\ pc' = "returned"
    /\ UNCHANGED <<kind, driver, cfg, srcLen, it, cur, posts_checked, count, results, out>>

OrchNext == DirectCall

SpecOrch == OrchInit /\ [][OrchNext]_vars


(***************************************************************************)
(* Properties of download_media.  A step that appends to calls is a call;  *)
(* last' describes it, files and files' are the file system before and     *)
(* after it.                                                               *)
(***************************************************************************)
IsCall == calls' # calls

NonEmptyBody(content) == content # None /\ content # <<>>

\* the files created or changed by the step
ChangedFiles ==
    {f \in DOMAIN files' : f \notin DOMAIN files \/ files'[f] # files[f]}

\* C7: is_direct_media false and the locator returns (None, None): the call
\* returns (False, None), issues no media fetch and leaves every file alone
C7_NoMediaNoFetch ==
    [][(IsCall /\ ~last'.is_direct_media /\ last'.result = <<None, None>>)
          => /\ ~last'.success /\ last'.ext = None
             /\ last'.fetched = None /\ last'.media = NotAsked
             /\ files' = files]_vars

\* C7 witness: an indirect post whose page was fetched and has neither tag,
\* called on a file system that holds a file
C7_Witness ==
    /\ last.called /\ ~last.is_direct_media
    /\ last.page.status = "ok" /\ last.page.video = None /\ last.page.image = <<>>
    /\ last.result = <<None, None>>
    /\ ~last.success
    /\ files # <<>>

\* C8: a non-empty allow-list that does not hold the resolved extension: the
\* call returns (False, None) without a media fetch; and whatever file a call
\* with a non-empty allow-list writes has an extension of the allow-list
C8_AllowList ==
    [][(IsCall /\ NonEmptyList(last'.supported_media_formats))
          => /\ (last'.file_extension # None
                 /\ ~InList(last'.file_extension, last'.supported_media_formats))
                    => (/\ ~last'.success /\ last'.ext = None
                        /\ last'.fetched = None /\ last'.media = NotAsked
                        /\ files' = files)
             /\ \A f \in ChangedFiles :
                    InList(LastPart(f, "."), last'.supported_media_formats)]_vars

\* C8 witness: a direct .bmp post refused by the configured allow-list
C8_Witness ==
    /\ last.called /\ last.is_direct_media
    /\ last.submission.url = UrlBmp
    /\ last.supported_media_formats = SUPPORTED_MEDIA_FORMATS
    /\ last.file_extension = bmp
    /\ ~last.success

\* C9: a direct post whose media fetch returns 2xx with a non-empty body B and
\* whose write succeeds: the call returns (True, e), e the extension resolved
\* from the post URL, the file "{media_path}{sub}-{id}.{e}" holds B and no
\* other file has changed
C9_DirectSuccess ==
    [][(/\ IsCall /\ last'.is_direct_media
        /\ last'.media.status = "ok" /\ NonEmptyBody(last'.media.content)
        /\ last'.write = "ok")
          => LET e == get_file_extension(last'.submission.url)
                 path == MediaPath \o last'.sub \o <<"-">> \o last'.submission.id
                            \o <<".">> \o e
             IN  /\ last'.success /\ last'.ext = e
                 /\ last'.fetched = last'.submission.url
                 /\ DOMAIN files' = DOMAIN files \cup {path}
                 /\ files'[path] = last'.media.content
                 /\ \A f \in DOMAIN files \ {path} : files'[f] = files[f]]_vars

\* C9 witness: a direct post "A.JPEG" saved as .jpg beside the file of another
\* post
C9_Witness ==
    /\ last.called /\ last.is_direct_media /\ last.success
    /\ last.submission.url = UrlJpegUp
    /\ last.ext = jpg
    /\ Cardinality(DOMAIN files) = 2

\* C10: the media fetch returns an empty body or None: the call returns
\* (False, None) and no file is created or changed
C10_EmptyBody ==
    [][(/\ IsCall /\ last'.media.status = "ok"
        /\ ~NonEmptyBody(last'.media.content))
          => /\ ~last'.success /\ last'.ext = None
             /\ files' = files]_vars

\* C10 witness: a fetch that was issued and returned zero bytes, on a file
\* system that holds the file of this post
C10_Witness ==
    /\ last.called /\ last.fetched # None
    /\ last.media.status = "ok" /\ last.media.content = <<>>
    /\ Filename(MediaPath, Pics, PostId(1), jpg) \in DOMAIN files

\* C11: whatever the page fetch gives (exception, non-2xx status) the locator
\* returns (None, None); whatever the page fetch and the media fetch give
\* (exception, non-2xx status, empty body, failing write) download_media
\* returns (False, None); no exception leaves download_media
C11_FailuresAreSentinels ==
    [][IsCall =>
          /\ last'.page.status \in {"exception", "http_error"}
                => (/\ last'.result = <<None, None>>
                    /\ ~last'.success /\ last'.ext = None /\ ~last'.raised)
          /\ (\/ last'.media.status \in {"exception", "http_error"}
              \/ (last'.media.status = "ok" /\ ~NonEmptyBody(last'.media.content))
              \/ last'.write \in {"open_error", "write_error"})
                => (~last'.success /\ last'.ext = None /\ ~last'.raised)]_vars

\* C11 witness: an indirect post whose page named an image and whose media
\* fetch ended in a network exception
C11_Witness ==
    /\ last.called /\ ~last.is_direct_media
    /\ last.page.status = "ok" /\ last.result = <<UrlImgPng, None>>
    /\ last.fetched = UrlImgPng /\ last.media.status = "exception"
    /\ ~last.success /\ last.ext = None /\ ~last.raised

\* C12: the fetched page has an og:video tag with non-empty content: the
\* locator returns (that URL, "mp4"), whatever the og:image tag holds
C12_VideoFirst ==
    (/\ last.called /\ last.page.status = "ok" /\ Truthy(last.page.video))
        => last.result = <<last.page.video, mp4>>

\* C12 witness: a page with both tags filled
C12_Witness ==
    /\ last.called /\ last.page.status = "ok"
    /\ last.page.video = UrlVidWebm /\ last.page.image = UrlImgPng
    /\ last.result = <<UrlVidWebm, mp4>>

\* C13: the page is fetched and its og:video tag is absent or empty: the
\* locator returns (image URL, None) if the og:image tag has non-empty
\* content and (None, None) otherwise; a URL returned is the content of a tag
\* of the page, and no hint comes without a URL
C13_ImageOrNothing ==
    (last.called /\ last.page.status = "ok") =>
        /\ ~Truthy(last.page.video)
              => last.result = IF Truthy(last.page.image)
                               THEN <<last.page.image, None>>
                               ELSE <<None, None>>
        /\ last.result[1] # None
              => (/\ last.result[1] \in {last.page.video, last.page.image}
                  /\ Truthy(last.result[1]))
        /\ last.result[1] = None => last.result[2] = None

\* C13 witness: a page whose og:video tag has empty content and whose
\* og:image tag names an image
C13_Witness ==
    /\ last.called /\ last.page.status = "ok"
    /\ last.page.video = <<>> /\ last.page.image = UrlImgBmp
    /\ last.result = <<UrlImgBmp, None>>

\* C14: an indirect post for which the locator returns (image URL, None): the
\* extension of the allow-list check, of the Accept header and of the file
\* name is get_file_extension(image URL), and the media fetch goes to the
\* image URL
C14_ImageUrlDecides ==
    [][(/\ IsCall /\ ~last'.is_direct_media
        /\ last'.result[1] # None /\ last'.result[2] = None)
          => LET image_url == last'.result[1]
                 e == get_file_extension(image_url)
                 refused == /\ NonEmptyList(last'.supported_media_formats)
                            /\ ~InList(e, last'.supported_media_formats)
             IN  /\ last'.file_extension = e
                 /\ refused => (last'.fetched = None /\ ~last'.success)
                 /\ ~refused => /\ last'.fetched = image_url
                                /\ last'.accept = get_accept_header(e, image_url)
                 /\ last'.success => last'.ext = e
                 /\ ChangedFiles \subseteq
                        {Filename(MediaPath, last'.sub, last'.submission.id, e)}]_vars

\* C14 witness: a post "b.bmp", not direct for the configured allow-list,
\* whose page names a .png image: the image is fetched and saved as .png
C14_Witness ==
    /\ last.called /\ ~last.is_direct_media
    /\ last.submission.url = UrlBmp
    /\ last.supported_media_formats = SUPPORTED_MEDIA_FORMATS
    /\ last.result = <<UrlImgPng, None>>
    /\ last.fetched = UrlImgPng
    /\ last.success /\ last.ext = png
    /\ Filename(MediaPath, Pics, PostId(1), png) \in DOMAIN files

(***************************************************************************)
(* get_accept_header and get_file_extension called on their own, as the    *)
(* tests call them: cfg holds the arguments, out the value returned.       *)
(***************************************************************************)
\* file_extension arguments
AcceptExtensions == {mp4, webm, gif, jpg, png, bmp, <<"M", "P", "4">>}

\* media_url arguments: with and without ".mp4", ".webm", ".gif", in both
\* letter cases, in the path and in the query
UrlMp4Up   == Host \o <<"V", ".", "M", "P", "4">>
UrlWebmGif == Host \o <<"c", ".", "w", "e", "b", "m", ".", "g", "i", "f">>
UrlGifUp   == Host \o <<"G", ".", "G", "I", "F">>
UrlNoDot   == Host \o <<"m", "p", "4">>
UrlGifQ    == Host \o <<"p", "?", "f", "=", ".", "g", "i", "f">>
AcceptUrls ==
    {UrlJpg, UrlPage, UrlGifDir, UrlMp4Q, UrlVidWebm, UrlImgPng, UrlMp4Up, UrlWebmGif,
     UrlGifUp, UrlNoDot, UrlGifQ}

\* the state before a call of a function on its own
PureStart ==
    /\ kind = "pure"
    /\ driver = NoDriver
    /\ srcLen = 0
    /\ it = 0
    /\ cur = NoSubmission
    /\ posts_checked = 0
    /\ count = 0
    /\ results = <<>>
    /\ files = <<>>
    /\ calls = <<>>
    /\ out = <<>>
    /\ last = NoCall

AcceptInit ==
    /\ pc = "get_accept_header"
    /\ cfg \in [file_extension : AcceptExtensions, media_url : AcceptUrls]
    /\ PureStart

\* one call of get_accept_header
ApplyAcceptHeader ==
    /\ kind = "pure"
    /\ pc = "get_accept_header"
    /\ out' = <<get_accept_header(cfg.file_extension, cfg.media_url)>>
    /\ pc' = "accept_header_returned"
    /\ UNCHANGED <<kind, driver, cfg, srcLen, it, cur, posts_checked, count, results, files,
                   calls, last>>

\* url arguments of get_file_extension: recognized extensions in both letter
\* cases, jpeg and tiff, an unknown extension, no extension, an empty
\* extension, query strings and fragments, the empty and the blank string,
\* and URLs on which urlparse raises ValueError (an unclosed bracket in the
\* host)
UrlTiffUp   == Host \o <<"a", ".", "T", "I", "F", "F">>
UrlXyz      == Host \o <<"a", ".", "x", "y", "z">>
UrlDotEnd   == Host \o <<"a", ".">>
UrlPngFrag  == Host \o <<"a", ".", "p", "n", "g", "#", "x">>
UrlPngQFrag == Host \o <<"a", ".", "p", "n", "g", "?", "q", "=", ".", "g", "i", "f", "#",
                         ".", "m", "p", "4">>
UrlBad      == <<"h", "t", "t", "p", ":", "/", "/", "[", "/", "a", ".", "p", "n", "g">>
UrlBadFrag  == UrlBad \o <<"#", "x">>
UrlBadQuery == UrlBad \o <<"?", "q", "=", "/", "b", ".", "g", "i", "f">>
ResolverUrls ==
    AllUrls \cup AcceptUrls
        \cup {<<>>, <<" ">>, UrlTiffUp, UrlXyz, UrlDotEnd, UrlPngFrag, UrlPngQFrag,
              UrlBad, UrlBadFrag, UrlBadQuery}

ExtensionInit ==
    /\ pc = "get_file_extension"
    /\ cfg \in [url : ResolverUrls]
    /\ PureStart

\* one call of get_file_extension
ApplyFileExtension ==
    /\ kind = "pure"
    /\ pc = "get_file_extension"
    /\ out' = <<get_file_extension(cfg.url)>>
    /\ pc' = "file_extension_returned"
    /\ UNCHANGED <<kind, driver, cfg, srcLen, it, cur, posts_checked, count, results, files,
                   calls, last>>

PureInit == AcceptInit \/ ExtensionInit

PureNext == ApplyAcceptHeader \/ ApplyFileExtension

SpecPure == PureInit /\ [][PureNext]_vars

\* the three values of the Accept header
AcceptVideo == "video/*, */*"
AcceptGif == "image/gif, image/*"
AcceptImage == "image/*"

\* C15: get_accept_header returns the video value iff the extension is mp4
\* or webm or the lower-cased URL contains ".mp4" or ".webm"; otherwise the
\* gif value iff the extension is gif or the lower-cased URL contains ".gif";
\* otherwise the image value.  A ".mp4"/".webm" in the URL gives the video
\* value whatever the extension, gif included
C15_AcceptHeader ==
    pc = "accept_header_returned" =>
        LET e == cfg.file_extension
            u == Lower(cfg.media_url)
            video == \/ e \in {mp4, webm}
                     \/ Contains(u, <<".", "m", "p", "4">>)
                     \/ Contains(u, <<".", "w", "e", "b", "m">>)
            isgif == e = gif \/ Contains(u, <<".", "g", "i", "f">>)
        IN  /\ out[1] = AcceptVideo <=> video
            /\ out[1] = AcceptGif <=> (~video /\ isgif)
            /\ out[1] = AcceptImage <=> (~video /\ ~isgif)

\* C15 witness: extension gif, URL "V.MP4": the video value
C15_Witness ==
    /\ pc = "accept_header_returned"
    /\ cfg.file_extension = gif /\ cfg.media_url = UrlMp4Up
    /\ out = <<AcceptVideo>>

\* a URL without its fragment and its query string
BareUrl(u) == FirstPart(FirstPart(u, "#"), "?")

\* the extension the last path segment of a URL ends in, normalized, if it is
\* a recognized one, the default otherwise
ExtensionOfLastSegment(u) ==
    LET segment == LastPart(BareUrl(Strip(u)), "/")
    IN  IF NumParts(segment, ".") >= 2
        THEN SupportedOrDefault(EXTENSION_MAPPING(Lower(LastPart(segment, "."))))
        ELSE DEFAULT_EXTENSION

\* C16 as claimed: for every URL get_file_extension returns the normalized
\* lower-case extension the last path segment ends in when it is a recognized
\* one (any letter case) and the default otherwise, and the query string and
\* the fragment have no influence on the result
C16_ResolverByLastSegment ==
    pc = "file_extension_returned" =>
        /\ out[1] = ExtensionOfLastSegment(cfg.url)
        /\ out[1] = get_file_extension(BareUrl(cfg.url))

\* the same for the URLs that urlparse accepts
ResolverByLastSegmentWhenParsed ==
    (pc = "file_extension_returned" /\ ~UrlparseRaises(Strip(cfg.url))) =>
        /\ out[1] = ExtensionOfLastSegment(cfg.url)
        /\ out[1] = get_file_extension(BareUrl(cfg.url))

(***************************************************************************)
(* A forum scan run twice with the same arguments, on the same listing and *)
(* the same pages; the media answer alike, with other bytes.  The second   *)
(* run starts on the files the first run left.                             *)
(***************************************************************************)
FirstBytes == <<"x07">>
SecondBytes == <<"x08">>
OkMedia(content) == [status |-> "ok", video |-> None, image |-> None, content |-> content]
OkPage == [status |-> "ok", video |-> None, image |-> UrlImgPng, content |-> None]

\* a post of the listing: its URL, its page, and what its media request
\* answers in the first and in the second run
WorldPosts ==
    [url : ScanUrls, page : {OkPage},
     first : {Failed("http_error"), OkMedia(FirstBytes)},
     second : {Failed("http_error"), OkMedia(SecondBytes)}]

RerunInit ==
    /\ kind = "forum"
    /\ cfg \in [sub : {Pics},
                post_search_amount : 1..MaxRerunPosts,
                subreddit_limit : {MaxRerunPosts},
                safety_limit : 1..MaxRerunPosts,
                supported_media_formats : {SUPPORTED_MEDIA_FORMATS}]
    /\ srcLen \in 1..MaxRerunPosts
    /\ driver \in [run : {1}, world : [1..srcLen -> WorldPosts], files1 : {<<>>}]
    /\ pc = "loop"
    /\ it = 0
    /\ cur = NoSubmission
    /\ posts_checked = 0
    /\ count = 0
    /\ results = <<>>
    /\ files = <<>>
    /\ calls = <<>>
    /\ out = <<>>
    /\ last = NoCall

\* the URL of the next post of the listing
RerunUrls == {driver.world[it + 1].url}

\* the answers of the web for the current post in the current run
RerunEnvs ==
    {[page |-> driver.world[it].page,
      media |-> IF driver.run = 1 THEN driver.world[it].first ELSE driver.world[it].second,
      write |-> "ok"]}

\* the program is started again: process_subreddit anew, on the files left
Rerun ==
    /\ kind = "forum"
    /\ pc = "done"
    /\ driver.run = 1
    /\ driver' = [driver EXCEPT !.run = 2, !.files1 = files]
    /\ pc' = "loop"
    /\ it' = 0
    /\ cur' = NoSubmission
    /\ posts_checked' = 0
    /\ count' = 0
    /\ calls' = <<>>
    /\ out' = <<>>
    /\ last' = NoCall
    /\ UNCHANGED <<kind, cfg, srcLen, results, files>>

RerunNext ==
    \/ LoopGoalMet(RerunUrls)
    \/ LoopSafetyLimit(RerunUrls)
    \/ LoopProceed(RerunUrls)
    \/ LoopExhausted
    \/ LoopDownload(RerunEnvs)
    \/ Summary
    \/ Rerun

SpecRerun == RerunInit /\ [][RerunNext]_vars

\* the media requests answer alike in both runs
SameAnswers ==
    \A i \in 1..srcLen : driver.world[i].first.status = driver.world[i].second.status

\* C20: a download whose destination exists replaces its content by the bytes
\* fetched and reports success, and no file name is added; after the second
\* of two runs with the same inputs the file names are those the first run
\* left and every file holds the bytes of the second run
C20_Overwrite ==
    [][/\ (/\ Len(calls') > Len(calls)
           /\ last'.media.status = "ok" /\ NonEmptyBody(last'.media.content)
           /\ Filename(MediaPath, last'.sub, last'.submission.id, last'.file_extension)
                 \in DOMAIN files)
            => LET path == Filename(MediaPath, last'.sub, last'.submission.id,
                                    last'.file_extension)
               IN  /\ last'.success
                   /\ DOMAIN files' = DOMAIN files
                   /\ files'[path] = last'.media.content
       /\ (pc' = "done" /\ driver'.run = 2 /\ SameAnswers)
            => /\ DOMAIN files' = DOMAIN driver'.files1
               /\ \A f \in DOMAIN files' : files'[f] = SecondBytes]_vars

\* C20 witness: the second run has ended, its answers were those of the
\* first; two files were left by the first run with its bytes, and hold the
\* bytes of the second run
C20_Witness ==
    /\ pc = "done" /\ driver.run = 2 /\ SameAnswers
    /\ Cardinality(DOMAIN files) = 2
    /\ DOMAIN driver.files1 = DOMAIN files
    /\ \A f \in DOMAIN files : driver.files1[f] = FirstBytes /\ files[f] = SecondBytes

(***************************************************************************)
(* Authentication (reddit_auth.py create_token and authenticate_reddit,    *)
(* main.py's own authenticate_reddit).  The credentials are a dictionary   *)
(* over the five keys, a key that is absent reads as None (creds.get).     *)
(* The file system holds the token file: its path -> the pickled           *)
(* credentials.  The platform is what praw.Reddit(...) and user.me() do.   *)
(***************************************************************************)
CredentialKeys == {"client_id", "client_secret", "user_agent", "username", "password"}

\* os.path.join(dir_path, TOKEN_FILE)
TokenPath == <<"/", "t", "o", "k", "e", "n">>

\* the dictionary {}
NoCredentials == [key \in CredentialKeys |-> None]
\* complete credentials, as the environment and as a token file may hold them
EnvCredentials == [key \in CredentialKeys |-> <<"e">>]
FileCredentials == [key \in CredentialKeys |-> <<"f">>]

\* os.remove
RemoveFile(fs, name) == [f \in DOMAIN fs \ {name} |-> fs[f]]

\* reddit_auth.py lines 72-81, main.py lines 47-56:
\* creds and all(creds.get(key) for key in [...])
ValidCredentials(creds) == \A key \in CredentialKeys : Truthy(creds[key])

\* faulty variant of create_token: the credentials are returned as they are read
CreateTokenUnchecked(env) == [raised |-> FALSE, creds |-> env]

\* reddit_auth.py lines 23-40; env is what os.getenv returns for the five
\* variables
create_token(env) ==
    IF \E key \in CredentialKeys : ~Truthy(env[key])
    THEN [raised |-> TRUE, creds |-> None]
    ELSE [raised |-> FALSE, creds |-> env]

\* what a call of authenticate_reddit did: how it ended ("returned", or the
\* exception that left it), the credentials returned, the file system after
\* it, the number of calls of os.path.exists, pickle.load, create_token and
\* pickle.dump, the credentials praw.Reddit was called with, and the number
\* of calls of user.me()
AuthReport(outcome, creds, fs, exists, loads, creates, dumps, constructed, me) ==
    [called |-> TRUE, outcome |-> outcome, creds |-> creds, fs |-> fs,
     exists |-> exists, loads |-> loads, creates |-> creates, dumps |-> dumps,
     constructed |-> constructed, me |-> me]

\* reddit_auth.py lines 90-132: the client is constructed and returned, the
\* connection is not tested; an exception of the constructor removes the
\* token file and is raised as RuntimeError
Connect(creds, platform, fs) ==
    IF platform.construct = "raises"
    THEN AuthReport("RuntimeError", None,
                    IF TokenPath \in DOMAIN fs THEN RemoveFile(fs, TokenPath) ELSE fs,
                    1, 0, 1, 1, <<creds>>, 0)
    ELSE AuthReport("returned", creds, fs, 0, 0, 1, 1, <<creds>>, 0)

\* reddit_auth.py lines 66-88: the credentials are written to the token file,
\* then validated
DumpAndValidate(creds, platform, fs) ==
    IF ~ValidCredentials(creds)
    THEN AuthReport("ValueError", None, fs, 0, 0, 1, 1, <<>>, 0)
    ELSE Connect(creds, platform, fs)

\* reddit_auth.py lines 60-132, authenticate_reddit(dir_path, token_file)
authenticate_reddit(env, platform, fs) ==
    LET token == create_token(env)
    IN  IF token.raised
        THEN AuthReport("ValueError", None, fs, 0, 0, 1, 0, <<>>, 0)
        ELSE DumpAndValidate(token.creds, platform, WriteFile(fs, TokenPath, token.creds))

\* main.py lines 43-87: validation, construction and test of the connection;
\* every failure ends in exit(1)
MainConnect(creds, platform, fs, loads, creates) ==
    IF ~ValidCredentials(creds)
    THEN AuthReport("SystemExit", None, fs, 1, loads, creates, creates, <<>>, 0)
    ELSE IF platform.construct = "raises"
    THEN AuthReport("SystemExit", None, fs, 1, loads, creates, creates, <<creds>>, 0)
    ELSE IF platform.me = "raises"
    THEN AuthReport("SystemExit", None, fs, 1, loads, creates, creates, <<creds>>, 1)
    ELSE AuthReport("returned", creds, fs, 1, loads, creates, creates, <<creds>>, 1)

\* main.py lines 34-87, authenticate_reddit(dir_path)
main_authenticate_reddit(env, platform, fs) ==
    IF TokenPath \in DOMAIN fs
    THEN MainConnect(fs[TokenPath], platform, fs, 1, 0)
    ELSE LET token == create_token(env)
         IN  IF token.raised
             THEN AuthReport("ValueError", None, fs, 1, 0, 1, 0, <<>>, 0)
             ELSE MainConnect(token.creds, platform,
                              WriteFile(fs, TokenPath, token.creds), 0, 1)

\* what the environment variables may hold: each one absent, empty or set
Environments == [CredentialKeys -> {None, <<>>, <<"e">>}]

\* what the token file may hold when there is one: complete credentials, {},
\* credentials without a password, credentials with an empty user agent
TokenContents ==
    {FileCredentials, NoCredentials,
     [FileCredentials EXCEPT !["password"] = None],
     [FileCredentials EXCEPT !["user_agent"] = <<>>]}

TokenFiles == {<<>>} \cup {WriteFile(<<>>, TokenPath, creds) : creds \in TokenContents}

Platforms == [construct : {"ok", "raises"}, me : {"ok", "raises"}]

\* one call of create_token or of one of the two authenticate_reddit
AuthInit ==
    /\ kind = "auth"
    /\ driver = NoDriver
    /\ cfg \in [function : {"create_token", "authenticate_reddit", "main.authenticate_reddit"},
                env : Environments, platform : Platforms]
    /\ files \in TokenFiles
    /\ srcLen = 0
    /\ pc = "call"
    /\ it = 0
    /\ cur = NoSubmission
    /\ posts_checked = 0
    /\ count = 0
    /\ results = <<>>
    /\ calls = <<>>
    /\ out = <<>>
    /\ last = NoCall

\* the call has ended, r being what it did
AfterAuth(r) ==
    /\ files' = r.fs
    /\ last' = r
    /\ out' = IF r.outcome = "returned" THEN <<r.creds>> ELSE <<>>
    /\ pc' = r.outcome
    /\ UNCHANGED <<kind, driver, cfg, srcLen, it, cur, posts_checked, count, results, calls>>

CallCreateToken ==
    /\ kind = "auth" /\ pc = "call" /\ cfg.function = "create_token"
    /\ \E token \in {create_token(cfg.env)} :
           AfterAuth(AuthReport(IF token.raised THEN "ValueError" ELSE "returned",
                                token.creds, files, 0, 0, 1, 0, <<>>, 0))

CallAuthenticate ==
    /\ kind = "auth" /\ pc = "call" /\ cfg.function = "authenticate_reddit"
    /\ \E r \in {authenticate_reddit(cfg.env, cfg.platform, files)} : AfterAuth(r)

CallMainAuthenticate ==
    /\ kind = "auth" /\ pc = "call" /\ cfg.function = "main.authenticate_reddit"
    /\ \E r \in {main_authenticate_reddit(cfg.env, cfg.platform, files)} : AfterAuth(r)

AuthNext == CallCreateToken \/ CallAuthenticate \/ CallMainAuthenticate

SpecAuth == AuthInit /\ [][AuthNext]_vars

(***************************************************************************)
(* main.py: main reads the source list and calls main.py's own             *)
(* process_subreddit on every non-empty line; that process_subreddit calls *)
(* main.py's own download_media.                                           *)
(***************************************************************************)
Cats == <<"c", "a", "t", "s">>

\* the lines of the source list file, without their line ends
Lines == {Pics, Cats, <<" ">>}
SourceLists == UNION {[1..n -> Lines] : n \in 1..MaxSources}

\* main.py lines 203-236: the text of media_download.py's download_media
\* without the allow-list test of its lines 101-102; the value returned is
\* the success alone
main_download_media(submission, media_path, sub, is_direct_media, env, fs) ==
    download_media(submission, media_path, sub, is_direct_media, None, env, fs)

\* main.py lines 273-276: the progress record; the extension of the file name
\* printed is resolved from the post URL
MainProgress(c, sub, submission) ==
    [kind |-> "progress", index |-> c + 1, of |-> cfg.post_search_amount,
     url |-> submission.url,
     filename |-> sub \o <<"-">> \o submission.id \o <<".">>
                      \o FileExtensionOf[submission.url]]

\* what main's authenticate_reddit finds: the token file, the environment
\* and the platform (a token file that is accepted, credentials of the
\* environment that are accepted, no credentials at all, a token file that
\* the platform rejects)
MainAuthInputs ==
    {[fs |-> WriteFile(<<>>, TokenPath, FileCredentials), env |-> NoCredentials,
      platform |-> [construct |-> "ok", me |-> "ok"]],
     [fs |-> <<>>, env |-> EnvCredentials,
      platform |-> [construct |-> "ok", me |-> "ok"]],
     [fs |-> <<>>, env |-> NoCredentials,
      platform |-> [construct |-> "ok", me |-> "ok"]],
     [fs |-> WriteFile(<<>>, TokenPath, FileCredentials), env |-> NoCredentials,
      platform |-> [construct |-> "ok", me |-> "raises"]]}

\* the constants of config.py (POST_SEARCH_AMOUNT, SUBREDDIT_LIMIT,
\* SAFETY_LIMIT), scaled to the listings of the model; driver counts the
\* calls of create_folder and of authenticate_reddit, keeps how the latter
\* ended and the sources process_subreddit was called with
MainInit ==
    /\ kind = "main"
    /\ \E input \in MainAuthInputs :
           /\ driver \in [subs : SourceLists, i : {0}, env : {input.env},
                           platform : {input.platform}, folders : {0}, auths : {0},
                           auth : {"none"}, scanned : {<<>>}]
           /\ files = input.fs
    /\ cfg = [sub |-> None, post_search_amount |-> 1, subreddit_limit |-> MaxMainPosts,
              safety_limit |-> 1, supported_media_formats |-> SUPPORTED_MEDIA_FORMATS]
    /\ srcLen = 0
    /\ pc = "start"
    /\ it = 0
    /\ cur = NoSubmission
    /\ posts_checked = 0
    /\ count = 0
    /\ results = <<>>
    /\ calls = <<>>
    /\ out = <<>>
    /\ last = NoCall

\* main.py lines 285-289: the destination directory
MainSetup ==
    /\ kind = "main"
    /\ pc = "start"
    /\ driver' = [driver EXCEPT !.folders = @ + 1]
    /\ pc' = "authenticate"
    /\ UNCHANGED <<kind, cfg, srcLen, it, cur, posts_checked, count, results, files,
                   calls, out, last>>

\* main.py line 292: authenticate_reddit; an exception or exit(1) leaves main
MainAuthenticate ==
    /\ kind = "main"
    /\ pc = "authenticate"
    /\ \E r \in {main_authenticate_reddit(driver.env, driver.platform, files)} :
           /\ driver' = [driver EXCEPT !.auths = @ + 1, !.auth = r.outcome]
           /\ files' = r.fs
           /\ pc' = IF r.outcome = "returned" THEN "main" ELSE r.outcome
    /\ UNCHANGED <<kind, cfg, srcLen, it, cur, posts_checked, count, results, calls,
                   out, last>>

\* main.py lines 250-253: process_subreddit is entered
EnterProcessSubreddit(sub) ==
    /\ cfg' = [cfg EXCEPT !.sub = sub]
    /\ out' = Append(out, [kind |-> "downloading", sub |-> sub])
    /\ count' = 0
    /\ posts_checked' = 0
    /\ it' = 0
    /\ cur' = NoSubmission
    /\ calls' = <<>>
    /\ srcLen' \in 0..MaxMainPosts
    /\ pc' = "loop"
    /\ UNCHANGED <<results, files, last>>

\* main.py lines 297-301: the next line of the file; an empty one is skipped
MainNextLine ==
    /\ kind = "main"
    /\ pc = "main"
    /\ driver.i < Len(driver.subs)
    /\ kind' = kind
    /\ LET sub == Strip(driver.subs[driver.i + 1])
       IN  IF sub = <<>>
           THEN /\ driver' = [driver EXCEPT !.i = @ + 1]
                /\ UNCHANGED <<cfg, srcLen, pc, it, cur, posts_checked, count, results,
                                files, calls, out, last>>
           ELSE /\ driver' = [driver EXCEPT !.i = @ + 1, !.scanned = Append(@, sub)]
                /\ EnterProcessSubreddit(sub)

\* main.py lines 296-297: the file is read to its end, main returns
MainEnd ==
    /\ kind = "main"
    /\ pc = "main"
    /\ driver.i >= Len(driver.subs)
    /\ pc' = "done"
    /\ UNCHANGED <<kind, driver, cfg, srcLen, it, cur, posts_checked, count, results,
                   files, calls, out, last>>

\* main.py lines 272-277, r being what download_media did
AfterMainCall(r, is_direct_media, env) ==
    /\ calls' = Append(calls, cur.id)
    /\ files' = r.fs
    /\ last' = CallRecord(cur, cfg.sub, is_direct_media, None, env, r)
    /\ count' = IF r.success THEN count + 1 ELSE count
    /\ out' = IF r.success THEN Append(out, MainProgress(count, cfg.sub, cur)) ELSE out
    /\ pc' = IF r.raised THEN "raised" ELSE "loop"

\* main.py lines 268-277: download_media on the current submission
MainLoopDownload(envs) ==
    /\ kind = "main"
    /\ pc = "download"
    /\ Len(calls) < MaxCalls
    /\ \E env \in envs :
           \E is_direct_media \in {IsDirectMedia(cur.url, SUPPORTED_MEDIA_FORMATS)} :
               \E r \in {main_download_media(cur, MediaPath, cfg.sub, is_direct_media,
                                             env, files)} :
                   AfterMainCall(r, is_direct_media, env)
    /\ UNCHANGED <<kind, driver, cfg, srcLen, it, cur, posts_checked, results>>

\* main.py line 279: the summary; process_subreddit returns to main
MainSummary ==
    /\ kind = "main"
    /\ pc = "summary"
    /\ out' = Append(out, [kind |-> "summary", saved |-> count, scanned |-> posts_checked])
    /\ pc' = "main"
    /\ UNCHANGED <<kind, driver, cfg, srcLen, it, cur, posts_checked, count, results,
                   files, calls, last>>

\* the answers of the web in the scans driven by main
MainEnvs == [page : {OkPage}, media : {Failed("http_error"), OkMedia(FirstBytes)},
             write : {"ok"}]

\* ListingFails: the exception that leaves process_subreddit leaves main as
\* well, main.py line 301 is not in a try statement
MainNext ==
    \/ MainSetup
    \/ MainAuthenticate
    \/ MainNextLine
    \/ MainEnd
    \/ LoopGoalMet(ScanUrls)
    \/ LoopSafetyLimit(ScanUrls)
    \/ LoopProceed(ScanUrls)
    \/ LoopExhausted
    \/ ListingFails
    \/ MainLoopDownload(MainEnvs)
    \/ MainSummary

SpecMain == MainInit /\ [][MainNext]_vars

\* C17 as claimed: a listing that fails does not end the driver: when main
\* has ended, every line of the source list has been taken
C17_EverySourceScanned ==
    (kind = "main" /\ pc \in {"done", "raised"}) => driver.i = Len(driver.subs)

(***************************************************************************)
(* Properties of the scanners' reports.                                    *)
(***************************************************************************)
\* the last line printed is the summary, with count and posts_checked
SummaryEmitted ==
    /\ out # <<>>
    /\ out[Len(out)] = [kind |-> "summary", saved |-> count, scanned |-> posts_checked]

\* C18 as claimed: every forum scan that is started eventually prints its
\* summary
C18_SummaryAlways == (kind = "forum") => <>SummaryEmitted

\* the same for the scans in which the request of the listing does not fail:
\* the scan ends by the goal, the safety limit or the end of the listing
\* (empty or not, with or without success), and prints its summary
SummaryUnlessListingFails == (kind = "forum") => <>(SummaryEmitted \/ pc = "raised")

\* the progress record of a successful call: its index is the new count and
\* its file name is that of the file the call has written
ProgressOfCall(record) ==
    /\ record.kind = "progress"
    /\ record.index = count'
    /\ record.filename = last'.sub \o <<"-">> \o last'.submission.id \o <<".">>
                             \o last'.file_extension
    /\ MediaPath \o record.filename \in DOMAIN files'

\* C19 as claimed, for process_subreddit (subreddit_processor.py and
\* main.py): a successful download_media adds one to count and prints one
\* progress record, whose index is the new count and whose file name has the
\* extension of the file written; a failed one prints nothing and leaves
\* count alone
C19_ProgressRecords ==
    [][(ForumLoop /\ Len(calls') > Len(calls)) =>
          IF last'.success
          THEN /\ count' = count + 1
               /\ Len(out') = Len(out) + 1
               /\ SubSeq(out', 1, Len(out)) = out
               /\ ProgressOfCall(out'[Len(out')])
          ELSE count' = count /\ out' = out]_vars

\* main.py's process_subreddit has printed a file name that is not the name
\* of the file written
ProgressNamesNoFile ==
    /\ kind = "main" /\ last.called /\ last.success
    /\ \E i \in 1..Len(out) :
           /\ out[i].kind = "progress"
           /\ MediaPath \o out[i].filename \notin DOMAIN files

(***************************************************************************)
(* Properties of the destination paths within one scan.                    *)
(***************************************************************************)
\* C21: within the scan of one source (forum or user), a download never
\* changes or removes a file that an earlier post of the scan has left, and a
\* successful download adds one file: the posts of the scan, whose identifiers
\* differ, are never written to the same path, whatever their extensions
C21_DistinctPostsDistinctPaths ==
    [][(kind \in {"forum", "user"} /\ Len(calls') > Len(calls)) =>
          /\ NoDuplicates(calls')
          /\ \A f \in DOMAIN files : f \in DOMAIN files' /\ files'[f] = files[f]
          /\ last'.success =>
                 /\ Cardinality(DOMAIN files') = Cardinality(DOMAIN files) + 1
                 /\ Filename(MediaPath, cfg.sub, cur.id, last'.ext) \in DOMAIN files'
                 /\ Filename(MediaPath, cfg.sub, cur.id, last'.ext) \notin DOMAIN files]_vars

\* C21 witness: two posts of one scan have been saved with the same extension,
\* and there are two files
C21_Witness ==
    /\ kind \in {"forum", "user"}
    /\ Len(calls) = 2
    /\ DOMAIN files = {Filename(MediaPath, cfg.sub, PostId(1), jpg),
                       Filename(MediaPath, cfg.sub, PostId(2), jpg)}

(***************************************************************************)
(* Properties of the is_direct_media flag the scanners pass on.            *)
(***************************************************************************)
\* the lower-cased URL contains ".fmt" for one fmt of the list
ContainsFormat(url, supported_media_formats) ==
    \E i \in 1..Len(supported_media_formats) :
        Contains(Lower(url), <<".">> \o supported_media_formats[i])

\* C22 as claimed: in the forum scan and in the user scan, with every list of
\* formats, the empty one too, the flag passed to download_media is true
\* exactly when the lower-cased post URL contains ".fmt" for a fmt of the list
C22_IsDirectByFormats ==
    [][(kind \in {"forum", "user"} /\ Len(calls') > Len(calls)) =>
          (last'.is_direct_media
              <=> ContainsFormat(last'.submission.url, cfg.supported_media_formats))]_vars

\* the same for the forum scan alone, and for the user scan with a list that
\* is not empty
IsDirectByFormatsUnlessUserEmpty ==
    [][(/\ kind \in {"forum", "user"}
        /\ Len(calls') > Len(calls)
        /\ kind = "user" => cfg.supported_media_formats # <<>>) =>
          (last'.is_direct_media
              <=> ContainsFormat(last'.submission.url, cfg.supported_media_formats))]_vars

\* the user scan has passed a true flag with an empty list of formats
UserDirectWithEmptyList ==
    /\ kind = "user" /\ last.called
    /\ cfg.supported_media_formats = <<>>
    /\ last.is_direct_media

(***************************************************************************)
(* Properties of main.                                                     *)
(***************************************************************************)
\* the lines of the source list that are not blank, stripped, in their order
ListedSources(lines) ==
    LET NotBlank(line) == Strip(line) # <<>>
        listed == SelectSeq(lines, NotBlank)
    IN  [i \in 1..Len(listed) |-> Strip(listed[i])]

IsPrefix(s, t) == Len(s) <= Len(t) /\ s = SubSeq(t, 1, Len(s))

\* main has ended: it has returned, or an exception or exit(1) has left it
MainEnded == pc \in {"done", "raised", "ValueError", "SystemExit"}

\* the destination directory is set up once, then authenticate_reddit is
\* called once, both before any scan; a scan starts only when main is
\* between two scans, after an authentication that returned, and it is the
\* scan of the next listed source
MainSequence ==
    /\ driver'.folders <= 1 /\ driver'.auths <= 1
    /\ driver'.folders > driver.folders => driver.auths = 0 /\ driver.scanned = <<>>
    /\ driver'.auths > driver.auths => driver.folders = 1 /\ driver.scanned = <<>>
    /\ driver'.scanned # driver.scanned =>
          /\ pc = "main" /\ pc' = "loop"
          /\ driver.folders = 1 /\ driver.auths = 1 /\ driver.auth = "returned"
          /\ Len(driver'.scanned) = Len(driver.scanned) + 1
    /\ IsPrefix(driver'.scanned, ListedSources(driver.subs))
    /\ driver'.auth # "returned" => driver'.scanned = <<>>

\* C23 as claimed: the directory and the authentication come once and first,
\* the sources are scanned one at a time in the order of the list, none is
\* scanned when the authentication did not succeed, and when it did, every
\* listed source that is not blank has been scanned once when main has ended
C23_EverySourceOnceInOrder ==
    [][kind = "main" =>
          /\ MainSequence
          /\ (MainEnded /\ driver.auth = "returned")' =>
                 driver'.scanned = ListedSources(driver.subs)]_vars

\* the same, every source being scanned only when main returns
MainSequenceAndAllWhenReturned ==
    [][kind = "main" =>
          /\ MainSequence
          /\ pc' = "done" => driver'.scanned = ListedSources(driver.subs)]_vars

\* main has ended by an exception of a scan with a listed source left
MainEndedEarly ==
    /\ kind = "main" /\ pc = "raised" /\ driver.auth = "returned"
    /\ Len(driver.scanned) < Len(ListedSources(driver.subs))

\* main has returned after two scans
MainReturnedAfterTwo ==
    kind = "main" /\ pc = "done" /\ driver.scanned = <<Pics, Cats>>

\* main has ended without a scan, the authentication having failed
MainEndedUnauthenticated ==
    kind = "main" /\ pc \in {"ValueError", "SystemExit"} /\ driver.scanned = <<>>

(***************************************************************************)
(* Properties of the authentication.                                       *)
(***************************************************************************)
\* one of the five fields is absent or empty
Incomplete(creds) ==
    \E key \in CredentialKeys : creds[key] = None \/ creds[key] = <<>>

\* the credentials a call has worked with: those of the token file when it
\* was loaded, those of the environment otherwise
CredentialsUsed == IF last.loads > 0 THEN files[TokenPath] ELSE cfg.env

\* the call has failed: an exception or exit(1) has left it, nothing is
\* returned
AuthFailed ==
    /\ last.outcome \in {"ValueError", "RuntimeError", "SystemExit"}
    /\ pc = last.outcome
    /\ out = <<>>

\* C24: when one of the five fields of the credentials is absent or empty,
\* create_token and reddit_auth.py's authenticate_reddit raise ValueError and
\* main.py's authenticate_reddit raises ValueError or exits with status 1;
\* nothing is returned, and praw.Reddit is never called with credentials that
\* are incomplete
C24_IncompleteCredentialsFail ==
    (kind = "auth" /\ last.called) =>
        /\ Incomplete(CredentialsUsed) =>
              /\ AuthFailed
              /\ last.outcome \in {"ValueError", "SystemExit"}
              /\ cfg.function # "main.authenticate_reddit" => last.outcome = "ValueError"
              /\ last.constructed = <<>>
        /\ \A i \in 1..Len(last.constructed) : ~Incomplete(last.constructed[i])
        /\ \A i \in 1..Len(out) : ~Incomplete(out[i])

\* C24 witness: the password alone is empty in the environment, there is no
\* token file, authenticate_reddit has raised ValueError, no client was
\* constructed and no token file written
C24_Witness ==
    /\ kind = "auth" /\ last.called
    /\ cfg.function = "authenticate_reddit"
    /\ cfg.env = [EnvCredentials EXCEPT !["password"] = <<>>]
    /\ pc = "ValueError"
    /\ last.constructed = <<>>
    /\ files = <<>>

\* what the step of a call of authenticate_reddit does with the token file:
\* a file that exists is checked for and loaded once, create_token is not
\* called, and what is returned is what the file holds; without a file,
\* create_token is called once, what it returns is written to the file
\* once, and is what is returned
TokenPersistence ==
    IF TokenPath \in DOMAIN files
    THEN /\ last'.exists = 1 /\ last'.loads = 1 /\ last'.creates = 0
         /\ last'.dumps = 0
         /\ last'.outcome = "returned" =>
               /\ out' = <<files[TokenPath]>>
               /\ last'.constructed = <<files[TokenPath]>>
               /\ files' = files
    ELSE /\ last'.loads = 0 /\ last'.creates = 1
         /\ ~Incomplete(cfg.env) => last'.dumps = 1
         /\ last'.outcome = "returned" =>
               /\ out' = <<cfg.env>>
               /\ last'.constructed = <<cfg.env>>
               /\ files' = WriteFile(files, TokenPath, cfg.env)

\* C25 as claimed, for reddit_auth.py's authenticate_reddit and for main.py's:
\* the token file is used when it exists, created from create_token when it
\* does not, and the credentials returned are those loaded or created
C25_TokenFilePersistence ==
    [][(/\ kind = "auth"
        /\ cfg.function \in {"authenticate_reddit", "main.authenticate_reddit"}
        /\ pc = "call" /\ pc' # "call") => TokenPersistence]_vars

\* the same for main.py's authenticate_reddit alone
TokenFilePersistenceInMain ==
    [][(/\ kind = "auth"
        /\ cfg.function = "main.authenticate_reddit"
        /\ pc = "call" /\ pc' # "call") => TokenPersistence]_vars

\* reddit_auth.py's authenticate_reddit has returned the credentials of the
\* environment and has put them in the place of those the token file held,
\* without a look at the file
TokenFileIgnored ==
    /\ kind = "auth" /\ cfg.function = "authenticate_reddit"
    /\ pc = "returned"
    /\ last.exists = 0 /\ last.loads = 0 /\ last.creates = 1 /\ last.dumps = 1
    /\ out = <<EnvCredentials>>
    /\ files[TokenPath] = EnvCredentials

\* main.py's authenticate_reddit has returned the credentials of the token
\* file, create_token was not called
TokenFileLoadedInMain ==
    /\ kind = "auth" /\ cfg.function = "main.authenticate_reddit"
    /\ pc = "returned"
    /\ last.loads = 1 /\ last.creates = 0
    /\ out = <<FileCredentials>>

\* the credentials are complete, the client is constructed, and the platform
\* rejects the credentials when user.me() asks it
PlatformRejects ==
    /\ ~Incomplete(CredentialsUsed)
    /\ cfg.platform.construct = "ok"
    /\ cfg.platform.me = "raises"

\* C26 as claimed, for reddit_auth.py's authenticate_reddit and for main.py's:
\* when the platform rejects the credentials, the call raises RuntimeError,
\* returns nothing, and there is no token file after it
C26_RejectedCredentialsDropped ==
    (/\ kind = "auth" /\ last.called
     /\ cfg.function \in {"authenticate_reddit", "main.authenticate_reddit"}
     /\ PlatformRejects) =>
        /\ AuthFailed
        /\ last.outcome = "RuntimeError"
        /\ TokenPath \notin DOMAIN files

\* what reddit_auth.py's authenticate_reddit does do: an exception of the
\* constructor praw.Reddit is raised as RuntimeError and the token file is
\* removed
ConstructorFailureDropsToken ==
    (/\ kind = "auth" /\ last.called
     /\ cfg.function = "authenticate_reddit"
     /\ ~Incomplete(cfg.env)
     /\ cfg.platform.construct = "raises") =>
        /\ AuthFailed
        /\ last.outcome = "RuntimeError"
        /\ TokenPath \notin DOMAIN files

\* reddit_auth.py's authenticate_reddit has returned credentials the platform
\* rejects: user.me() was not called
RejectedButReturned ==
    /\ kind = "auth" /\ last.called /\ cfg.function = "authenticate_reddit"
    /\ PlatformRejects
    /\ pc = "returned" /\ last.me = 0
    /\ TokenPath \in DOMAIN files

\* main.py's authenticate_reddit has ended in exit(1) on credentials the
\* platform rejects, and the token file is still there
RejectedTokenKept ==
    /\ kind = "auth" /\ last.called /\ cfg.function = "main.authenticate_reddit"
    /\ PlatformRejects
    /\ pc = "SystemExit" /\ last.me = 1
    /\ TokenPath \in DOMAIN files

(***************************************************************************)
(* Properties of the user scan's bounds.                                   *)
(***************************************************************************)
\* C27 as claimed: the user scan stops as the forum scan does: never more
\* successful downloads than post_search_amount, and download_media on no
\* more posts than safety_limit
C27_UserScanBounded ==
    kind = "user" =>
        /\ Len(results) <= cfg.post_search_amount
        /\ Len(calls) <= cfg.safety_limit

\* what bounds the user scan: the limit of the listing
UserScanBoundedByLimit ==
    kind = "user" =>
        /\ Len(results) <= Len(calls)
        /\ Len(calls) <= cfg.subreddit_limit

\* a user scan has ended with more successful downloads than
\* post_search_amount, download_media having been called on every post of the
\* listing
UserScanBeyondTarget ==
    /\ kind = "user" /\ pc = "done"
    /\ Len(results) > cfg.post_search_amount
    /\ Len(calls) = srcLen

(***************************************************************************)
(* Properties of the pair download_media returns.                          *)
(***************************************************************************)
\* an extension is present: a string that is not empty
Present(ext) == ext # None /\ ext # <<>>

\* C28: in the pair download_media returns, success is true exactly when the
\* extension is present; a success returns the extension of the file
\* written, and the scanner's test (success and actual_extension) is true
\* exactly for the successes
C28_SuccessIffExtension ==
    (kind = "call" /\ last.called) =>
        /\ last.success <=> Present(last.ext)
        /\ last.success => last.ext = last.file_extension
        /\ Counted(last.success, last.ext) <=> last.success

\* C28 witness: an extension was resolved and the media fetched, the save has
\* failed: the pair returned is (False, None)
C28_Witness ==
    /\ kind = "call" /\ last.called
    /\ Present(last.file_extension)
    /\ last.fetched # None /\ last.media.status = "ok"
    /\ ~last.success /\ last.ext = None

(***************************************************************************)
(* Properties of the number of posts the summary reports.                  *)
(***************************************************************************)
\* the forum scan has ended and its summary is printed
ForumScanEnded == kind = "forum" /\ pc = "done" /\ SummaryEmitted

\* C29 as claimed: the number of posts reported by the summary of a forum
\* scan is the number of posts download_media was called on, however the
\* scan has ended (with a target and a safety limit of one post at least)
C29_ScannedEqualsCalls ==
    (ForumScanEnded /\ cfg.post_search_amount >= 1 /\ cfg.safety_limit >= 1) =>
        out[Len(out)].scanned = Len(calls)

\* what the summary reports: the number of posts taken from the listing,
\* the post at which the loop broke included; that is the number of calls
\* or one more
ScannedEqualsPostsTaken ==
    ForumScanEnded =>
        /\ out[Len(out)].scanned = it
        /\ it \in {Len(calls), Len(calls) + 1}
        /\ it = srcLen /\ cfg.post_search_amount > count
              /\ cfg.safety_limit >= srcLen => it = Len(calls)

\* a scan has ended by the goal with one post more reported than
\* download_media was called on
ScannedBeyondCallsAtGoal ==
    /\ ForumScanEnded
    /\ count >= 1 /\ count = cfg.post_search_amount
    /\ out[Len(out)].scanned = Len(calls) + 1

\* a scan has ended by the safety limit with one post more reported than
\* download_media was called on
ScannedBeyondCallsAtSafetyLimit ==
    /\ ForumScanEnded
    /\ Len(out) >= 2 /\ out[Len(out) - 1].kind = "safety"
    /\ Len(calls) >= 1
    /\ out[Len(out)].scanned = Len(calls) + 1

\* a scan has ended by the end of the listing, and reports the number of
\* posts download_media was called on
ScannedEqualsCallsAtExhaustion ==
    /\ ForumScanEnded
    /\ it = srcLen /\ Len(calls) = srcLen /\ srcLen >= 2
    /\ out[Len(out)].scanned = Len(calls)

(***************************************************************************)
(* Properties of the posts resolved through og:video.                      *)
(***************************************************************************)
\* C30: the post is not direct and its page has an og:video tag with content:
\* the extension is "mp4", whatever the extension of the video URL; with a
\* non-empty allow-list without "mp4" the call fails and fetches nothing;
\* otherwise the video URL is fetched and a success is saved as .mp4; the
\* og:image of the page is never fetched in its place
C30_VideoHintDecides ==
    (/\ kind = "call" /\ last.called
     /\ ~last.is_direct_media
     /\ last.page.status = "ok" /\ Truthy(last.page.video)) =>
        /\ last.file_extension = mp4
        /\ IF /\ NonEmptyList(last.supported_media_formats)
              /\ ~InList(mp4, last.supported_media_formats)
           THEN ~last.success /\ last.ext = None /\ last.fetched = None
           ELSE last.fetched = last.page.video
        /\ last.success =>
              /\ last.ext = mp4
              /\ Filename(MediaPath, last.sub, last.submission.id, mp4) \in DOMAIN files
              /\ files[Filename(MediaPath, last.sub, last.submission.id, mp4)]
                    = last.media.content

\* C30 witness: the page has a .webm video and a .png image, the allow-list
\* is jpg and png: the call has failed with the extension "mp4" and no fetch
C30_Witness ==
    /\ kind = "call" /\ last.called /\ ~last.is_direct_media
    /\ last.page.status = "ok"
    /\ last.page.video = UrlVidWebm /\ last.page.image = UrlImgPng
    /\ last.supported_media_formats = <<jpg, png>>
    /\ last.file_extension = mp4
    /\ ~last.success /\ last.fetched = None

\* the same page with the allow-list of config.py: the .webm video is saved
\* as .mp4
VideoSavedAsMp4 ==
    /\ kind = "call" /\ last.called /\ ~last.is_direct_media
    /\ last.page.video = UrlVidWebm /\ last.page.image = UrlImgPng
    /\ last.supported_media_formats = SUPPORTED_MEDIA_FORMATS
    /\ last.success /\ last.ext = mp4 /\ last.fetched = UrlVidWebm

====
